---- MODULE Spec2Model ----
(***************************************************************************)
(* The resilient MQTT link of alibo/simple-mqtt-network-lab: the Go        *)
(* backend (go-backend/main.go) and the Java client (app/Main.java).       *)
(* One run of the model is one process: `agent` says which of the two.     *)
(* The Paho transport is the environment: connects succeed or fail, the    *)
(* connection is lost and comes back, delivery tokens complete, fail or    *)
(* stay silent, and the model takes every such outcome.                    *)
(***************************************************************************)
EXTENDS Integers, Sequences, FiniteSets, TLC

(* ------------------------------ bounds --------------------------------- *)
\* scheduled publisher ticks of one run, all topics together
MaxTicks == 3
\* connection losses of one run
MaxLosses == 2
\* failed initial connect attempts of the Java retry loop
MaxAttempts == 2
\* polls of the liveness monitor in one run
MaxPolls == 4
\* buffer_inflight.max_inflight of the run's configuration
MaxInflight == 1

\* the largest retry.write_timeout_ms a run is configured with, in seconds
MaxWriteTimeout == 12
\* seconds the clock of an acknowledgment wait is followed for
MaxWait == 12
\* the largest payload_bytes value a run is configured with
MaxSize == 16
\* inbound messages delivered to the handler in one run
MaxDeliveries == 2

(* ----------------------------- constants ------------------------------- *)
\* tok.WaitTimeout(10 * time.Second), in seconds
AckWait == 10
\* c.Retry.WriteTimeoutMs = 5000, in seconds
DefaultWriteTimeout == 5

(* ------------------------------ state ---------------------------------- *)
VARIABLES
  agent,          \* "go" (backend) or "java" (client)
  autoReconnect,  \* retry.enabled (Go) / retry.automatic_reconnect (Java)
  proc,           \* "loading", "setup", "connecting", "running", then on shutdown
                  \* "closed", "stopped", "disconnected", and "exited"
  exitCause,      \* why the process ended: "none", "config", "setup", "connect", "signal"
  conn,           \* "none", "open", "reconnecting", "lost", "closed"
  connects,       \* successful connects and reconnects so far
  losses,         \* connection losses so far
  attempts,       \* failed initial connect attempts (Java loop counter)
  ticks,          \* per topic: scheduler ticks fired
  pc,             \* per topic: where the publisher task is inside a tick
  seq,            \* per topic: offerSeq / rideSeq / seq
  assigned,       \* per topic: the sequence numbers handed out, in order
  handed,         \* per topic: the sequence numbers given to client.Publish
  tok,            \* per topic: how many delivery tokens are in each state
  published,      \* cnt.published / published[0]
  acked,          \* cnt.acked / acked[0]
  pubT,           \* cnt.pubOffer, cnt.pubRide
  ackT,           \* cnt.ackOffer, cnt.ackRide
  handled,        \* OnConnect / connectComplete callbacks run so far
  subIssued,      \* per topic: Subscribe calls issued so far
  subActive,      \* topics whose last Subscribe succeeded on this connection
  lastSub,        \* outcome of each Subscribe of the last callback
  prev,           \* liveness monitor: prev / prevConn[0]
  monitor,        \* liveness monitor: "off" or "on"
  polls,          \* liveness monitor: polls done
  events,         \* liveness monitor: the events logged, in order
  seen,           \* liveness monitor: prev's first value, then every polled value
  writeTimeout,   \* retry.write_timeout_ms of the configuration, in seconds
  waitState,      \* one acknowledgment wait: "none", "pending", "acked", "error", "timedout"
  waitAge,        \* seconds that wait has been pending
  plTs,           \* payload build: the publish time (ts)
  plSeq,          \* payload build: the sequence number (seq)
  plSize,         \* payload build: the configured payload size of the topic
  payload,        \* payload build: the payload built, one character per byte
  parsed,         \* payload build: what a receiver parsed from the payload built
  rx,             \* receive path: the last message delivered and what its handler made of it
  received,       \* cnt.received (Go)
  recvT,          \* cnt.recvLocation (Go); recvOffer, recvRide (Java)
  delivered,      \* per topic: messages the transport has delivered to the handler
  yaml,           \* configuration: the options of the YAML file, each given or omitted
  cfg,            \* configuration: what loadConfig / Config.load returned
  opts,           \* configuration: what main set on the transport's connect options
  snap            \* stats loop: the values loaded for, and logged in, a stats line:
                  \* inflight (total_inflight), pubT and ackT (the per-topic pub= and
                  \* ack= values, added up), pub and ack (total_pub, total_ack)

connVars == <<conn, connects, losses, attempts>>
procVars == <<agent, autoReconnect, proc, exitCause>>
pubVars  == <<ticks, pc, seq, assigned, handed, tok, published, acked, pubT, ackT>>
subVars  == <<handled, subIssued, subActive, lastSub>>
liveVars == <<prev, monitor, polls, events, seen, snap>>
waitVars == <<writeTimeout, waitState, waitAge>>
payloadVars == <<plTs, plSeq, plSize, payload, parsed>>
recvVars == <<rx, received, recvT, delivered>>
cfgVars == <<yaml, cfg, opts>>
vars == <<procVars, connVars, pubVars, subVars, liveVars, waitVars, payloadVars, recvVars, cfgVars>>

Agents == {"go", "java"}
Topics == {"offer", "ride", "location"}
\* the topics an agent publishes on a schedule
PubTopics(a) == IF a = "go" THEN {"offer", "ride"} ELSE {"location"}
\* the topics an agent consumes
SubTopics(a) == IF a = "go" THEN {"location"} ELSE {"offer", "ride"}

\* states of a delivery token and of the code waiting on it
TokStates == {"waiting", "acking", "acked", "timedout", "late", "failed"}

IsConnectionOpen == conn = "open"

\* the process exists: it has connected and has not exited
Alive == proc \in {"running", "closed", "stopped", "disconnected"}
\* tickers that are never stopped: they fire until the process exits
SchedulersRunningUntilExit == proc \in {"running", "closed", "stopped", "disconnected"}

\* the tickers / the scheduled executors have not been stopped
SchedulersRunning == proc \in {"running", "closed"}

RECURSIVE SumOver(_, _)
SumOver(f, S) ==
  IF S = {} THEN 0
  ELSE LET x == CHOOSE y \in S : TRUE IN f[x] + SumOver(f, S \ {x})

TotalTicks == SumOver(ticks, Topics)
\* messages handed to the transport whose outcome is still awaited
Inflight == SumOver([t \in Topics |-> tok[t]["waiting"]], Topics)

Move(t, from, to) ==
  tok' = [tok EXCEPT ![t] = [@ EXCEPT ![from] = @ - 1, ![to] = @ + 1]]

(* ------------------------------ Init ----------------------------------- *)
\* no acknowledgment wait is being timed
WaitIdle ==
  /\ waitState = "none"
  /\ waitAge = 0

\* no payload is being built
PayloadIdle ==
  /\ plTs = 0
  /\ plSeq = 1
  /\ plSize = 0
  /\ payload = <<>>
  /\ parsed = [by |-> "none", seq |-> 0, ts |-> 0]

\* no message has been delivered
\* an option the YAML file does not hold, and one it gives the value v
Omitted(zero) == [given |-> FALSE, v |-> zero]
Given(v) == [given |-> TRUE, v |-> v]

\* a YAML file that gives no option but what turns auto-reconnect off
ConfigIdle ==
  /\ yaml = [keepalive_secs |-> Omitted(0), max_inflight |-> Omitted(0),
             qos_ride |-> Omitted(0), connect_timeout_ms |-> Omitted(0),
             retry_enabled |-> IF agent = "go" /\ ~autoReconnect
                               THEN Given(FALSE) ELSE Omitted(FALSE),
             separate_pubsub_connections |-> Omitted(FALSE)]
  /\ cfg = [by |-> "none"]
  /\ opts = [by |-> "none"]

\* a payload without the field
AbsentField == [form |-> "absent", text |-> <<>>]

RecvIdle ==
  /\ rx = [topic |-> "none", sent |-> [ts |-> AbsentField, seq |-> AbsentField],
           payload |-> <<>>, recvTs |-> 0, seq |-> 0, ts |-> 0, hasLat |-> FALSE, lat |-> 0]
  /\ received = 0
  /\ recvT = [t \in Topics |-> 0]
  /\ delivered = [t \in Topics |-> 0]

\* the process as it starts
ProcInit ==
  /\ agent \in Agents
  /\ autoReconnect \in BOOLEAN
  /\ proc = "loading"
  /\ exitCause = "none"
  /\ conn = "none"
  /\ connects = 0
  /\ losses = 0
  /\ attempts = 0
  /\ ticks = [t \in Topics |-> 0]
  /\ pc = [t \in Topics |-> "idle"]
  /\ seq = [t \in Topics |-> 0]
  /\ assigned = [t \in Topics |-> <<>>]
  /\ handed = [t \in Topics |-> <<>>]
  /\ tok = [t \in Topics |-> [s \in TokStates |-> 0]]
  /\ published = 0
  /\ acked = 0
  /\ pubT = [t \in Topics |-> 0]
  /\ ackT = [t \in Topics |-> 0]
  /\ handled = 0
  /\ subIssued = [t \in Topics |-> 0]
  /\ subActive = {}
  /\ lastSub = [t \in Topics |-> "none"]
  /\ prev = FALSE
  /\ monitor = "off"
  /\ polls = 0
  /\ events = <<>>
  /\ seen = <<>>
  /\ snap = [phase |-> "idle", inflight |-> 0, pubT |-> 0, ackT |-> 0, pub |-> 0, ack |-> 0]

Init ==
  /\ ProcInit
  /\ writeTimeout = DefaultWriteTimeout
  /\ WaitIdle
  /\ PayloadIdle
  /\ RecvIdle
  /\ ConfigIdle

(* ---------------------------- configuration ---------------------------- *)
\* the YAML files: every option omitted, given as zero / false, or given another value
YamlInts(vals) == {Omitted(0)} \cup {Given(v) : v \in vals}
YamlBools == {Omitted(FALSE), Given(FALSE), Given(TRUE)}

YamlFiles ==
  [keepalive_secs : YamlInts({0, 15, 17}),
   max_inflight : YamlInts({0, 10}),
   qos_ride : YamlInts({0, 2}),
   connect_timeout_ms : YamlInts({500, 1000, 1500}),
   retry_enabled : YamlBools,
   separate_pubsub_connections : YamlBools]

\* yaml.Unmarshal into an int field: the value, or the zero value left in place
GoInt(o) == IF o["given"] THEN o["v"] ELSE 0

\* yaml.Unmarshal into a pointer field (*int, *bool): nil when the key is omitted
GoPtr(o) == [nil |-> ~o["given"], v |-> o["v"]]

\* if c.X == 0 { c.X = d }
GoIntDefault(x, d) == IF x = 0 THEN d ELSE x

\* a pointer field that gets the default whatever the file gives
GoPtrDefaultAlways(ptr, d) == d

\* if c.X == nil { v := d; c.X = &v }, then *c.X
GoPtrDefault(ptr, d) == IF ptr["nil"] THEN d ELSE ptr["v"]

\* Go: loadConfig
GoLoadConfig(y) ==
  [by |-> "go",
   KeepAliveSecs |-> GoIntDefault(GoInt(y["keepalive_secs"]), 15),
   MaxInflight |-> GoIntDefault(GoInt(y["max_inflight"]), 64),
   QoSRide |-> GoPtrDefault(GoPtr(y["qos_ride"]), 1),
   ConnectTimeoutMs |-> GoIntDefault(GoInt(y["connect_timeout_ms"]), 5000),
   RetryEnabled |-> GoPtrDefault(GoPtr(y["retry_enabled"]), TRUE)]

\* Java: i(m, k, d) and b(m, k, d): the value of the key when it holds a
\* Number / Boolean, d otherwise
JavaOrDefault(o, d) == IF o["given"] THEN o["v"] ELSE d

\* Java: Config.load
JavaLoadConfig(y) ==
  [by |-> "java",
   keepAlive |-> JavaOrDefault(y["keepalive_secs"], 15),
   maxInflight |-> JavaOrDefault(y["max_inflight"], 64),
   qosRide |-> JavaOrDefault(y["qos_ride"], 1),
   connectTimeoutMs |-> JavaOrDefault(y["connect_timeout_ms"], 5000),
   retryEnabled |-> JavaOrDefault(y["retry_enabled"], TRUE)]

\* the process starts with a YAML file
ConfigInit ==
  /\ ProcInit
  /\ writeTimeout = DefaultWriteTimeout
  /\ WaitIdle
  /\ PayloadIdle
  /\ RecvIdle
  /\ yaml \in YamlFiles
  /\ agent = "go" => autoReconnect = GoPtrDefault(GoPtr(yaml["retry_enabled"]), TRUE)
  /\ cfg = [by |-> "none"]
  /\ opts = [by |-> "none"]

\* Java: opt.setConnectionTimeout(cfg.connectTimeoutMs/1000), in seconds
JavaConnectionTimeout(ms) == ms \div 1000

\* Go: if cfg.Retry.ConnectTimeoutMs > 0 { opts.SetConnectTimeout(... * time.Millisecond) }
\* (0: the option is left as the transport has it)
GoConnectTimeout(ms) == IF ms > 0 THEN ms ELSE 0

(* --------------------------- startup ----------------------------------- *)
\* loadConfig / Config.load returns a configuration
LoadConfigOk ==
  /\ proc = "loading"
  /\ cfg' = IF agent = "go" THEN GoLoadConfig(yaml) ELSE JavaLoadConfig(yaml)
  /\ proc' = "setup"
  /\ UNCHANGED <<agent, autoReconnect, exitCause, connVars, pubVars, subVars, liveVars, waitVars, payloadVars, recvVars, yaml, opts>>

\* loadConfig fails: log.Fatalf("config: ..."); Config.load throws out of main
LoadConfigFail ==
  /\ proc = "loading"
  /\ proc' = "exited"
  /\ exitCause' = "config"
  /\ UNCHANGED <<agent, autoReconnect, connVars, pubVars, subVars, liveVars, waitVars, payloadVars, recvVars, cfgVars>>

\* Go: pprof goroutine (its error is dropped), signals, options, mqtt.NewClient;
\* Java: startProfilingServer(), new MqttAsyncClient, options, setCallback
SetupOk ==
  /\ proc = "setup"
  /\ opts' = IF agent = "go"
             THEN [by |-> "go", connectTimeoutMs |-> GoConnectTimeout(cfg["ConnectTimeoutMs"])]
             ELSE [by |-> "java", connectionTimeout |-> JavaConnectionTimeout(cfg["connectTimeoutMs"])]
  /\ proc' = "connecting"
  /\ UNCHANGED <<agent, autoReconnect, exitCause, connVars, pubVars, subVars, liveVars, waitVars, payloadVars, recvVars, yaml, cfg>>

\* Java: startProfilingServer() or new MqttAsyncClient(...) throws out of main
JavaSetupFail ==
  /\ agent = "java"
  /\ proc = "setup"
  /\ proc' = "exited"
  /\ exitCause' = "setup"
  /\ UNCHANGED <<agent, autoReconnect, connVars, pubVars, subVars, liveVars, waitVars, payloadVars, recvVars, cfgVars>>

\* the initial Connect succeeds: the tickers and schedulers are started
ConnectOk ==
  /\ proc = "connecting"
  /\ proc' = "running"
  /\ conn' = "open"
  /\ connects' = connects + 1
  /\ UNCHANGED <<agent, autoReconnect, exitCause, losses, attempts, pubVars, subVars, liveVars, waitVars, payloadVars, recvVars, cfgVars>>

\* Go: the initial Connect times out or reports an error: log.Fatalf
GoConnectFail ==
  /\ agent = "go"
  /\ proc = "connecting"
  /\ proc' = "exited"
  /\ exitCause' = "connect"
  /\ UNCHANGED <<agent, autoReconnect, connVars, pubVars, subVars, liveVars, waitVars, payloadVars, recvVars, cfgVars>>

\* the connect loop leaving on a failed attempt (break in the catch block)
JavaConnectFailBreaks ==
  /\ agent = "java"
  /\ proc = "connecting"
  /\ attempts < MaxAttempts
  /\ attempts' = attempts + 1
  /\ proc' = "running"
  /\ UNCHANGED <<agent, autoReconnect, exitCause, conn, connects, losses, pubVars, subVars, liveVars, waitVars, payloadVars, recvVars, cfgVars>>

\* Java: the initial connect throws: attempts++, sleep, try again
JavaConnectFail ==
  /\ agent = "java"
  /\ proc = "connecting"
  /\ attempts < MaxAttempts
  /\ attempts' = attempts + 1
  /\ UNCHANGED <<procVars, conn, connects, losses, pubVars, subVars, liveVars, waitVars, payloadVars, recvVars, cfgVars>>

(* ------------------------ connection events ---------------------------- *)
\* the transport reports the connection lost (ConnectionLostHandler /
\* connectionLost only log); with auto-reconnect the client starts retrying
ConnectionLost ==
  /\ proc = "running"
  /\ conn = "open"
  /\ losses < MaxLosses
  /\ losses' = losses + 1
  /\ conn' = IF autoReconnect THEN "reconnecting" ELSE "lost"
  /\ subActive' = {}
  /\ UNCHANGED <<procVars, connects, attempts, pubVars, handled, subIssued, lastSub, liveVars, waitVars, payloadVars, recvVars, cfgVars>>

\* a reconnect attempt of the transport succeeds
ReconnectOk ==
  /\ proc = "running"
  /\ conn = "reconnecting"
  /\ conn' = "open"
  /\ connects' = connects + 1
  /\ UNCHANGED <<procVars, losses, attempts, pubVars, subVars, liveVars, waitVars, payloadVars, recvVars, cfgVars>>

(* ------------------------ Go publish pipeline -------------------------- *)
\* the counter read without being incremented (Load for Add)
NextSeqLoad(s) == s

\* offerSeq.Add(1) / rideSeq.Add(1) / seq.incrementAndGet()
NextSeq(s) == s + 1

\* a publisher that waits for the outcome of its last message before it takes
\* the next tick (the token wait inside the loop instead of in a goroutine)
GoTickAfterAck(t) ==
  /\ agent = "go" /\ t \in PubTopics("go")
  /\ SchedulersRunning
  /\ pc[t] = "idle"
  /\ tok[t]["waiting"] = 0
  /\ TotalTicks < MaxTicks
  /\ ticks' = [ticks EXCEPT ![t] = @ + 1]
  /\ pc' = [pc EXCEPT ![t] = IF IsConnectionOpen THEN "checked" ELSE "idle"]
  /\ UNCHANGED <<procVars, connVars, seq, assigned, handed, tok, published, acked, pubT, ackT, subVars, liveVars, waitVars, payloadVars, recvVars, cfgVars>>

\* the loop without the IsConnectionOpen test: every tick goes on to publish
GoTickUnchecked(t) ==
  /\ agent = "go" /\ t \in PubTopics("go")
  /\ SchedulersRunning
  /\ pc[t] = "idle"
  /\ TotalTicks < MaxTicks
  /\ ticks' = [ticks EXCEPT ![t] = @ + 1]
  /\ pc' = [pc EXCEPT ![t] = "checked"]
  /\ UNCHANGED <<procVars, connVars, seq, assigned, handed, tok, published, acked, pubT, ackT, subVars, liveVars, waitVars, payloadVars, recvVars, cfgVars>>

\* case <-offerTicker.C: if client.IsConnectionOpen() { ... }
GoTick(t) ==
  /\ agent = "go" /\ t \in PubTopics("go")
  /\ SchedulersRunning
  /\ pc[t] = "idle"
  /\ TotalTicks < MaxTicks
  /\ ticks' = [ticks EXCEPT ![t] = @ + 1]
  /\ pc' = [pc EXCEPT ![t] = IF IsConnectionOpen THEN "checked" ELSE "idle"]
  /\ UNCHANGED <<procVars, connVars, seq, assigned, handed, tok, published, acked, pubT, ackT, subVars, liveVars, waitVars, payloadVars, recvVars, cfgVars>>

\* publish() handed the sequence number read before the increment
GoPublishStale(t) ==
  /\ agent = "go"
  /\ Alive
  /\ pc[t] = "checked"
  /\ seq' = [seq EXCEPT ![t] = NextSeq(@)]
  /\ assigned' = [assigned EXCEPT ![t] = Append(@, seq'[t])]
  /\ handed' = [handed EXCEPT ![t] = Append(@, seq[t])]
  /\ tok' = [tok EXCEPT ![t] = [@ EXCEPT !["waiting"] = @ + 1]]
  /\ pc' = [pc EXCEPT ![t] = "handed"]
  /\ UNCHANGED <<procVars, connVars, ticks, published, acked, pubT, ackT, subVars, liveVars, waitVars, payloadVars, recvVars, cfgVars>>

\* s := offerSeq.Add(1); publish(...) up to and including client.Publish and
\* the start of the goroutine that waits on the token
GoPublish(t) ==
  /\ agent = "go"
  /\ Alive
  /\ pc[t] = "checked"
  /\ seq' = [seq EXCEPT ![t] = NextSeq(@)]
  /\ assigned' = [assigned EXCEPT ![t] = Append(@, seq'[t])]
  /\ handed' = [handed EXCEPT ![t] = Append(@, seq'[t])]
  /\ tok' = [tok EXCEPT ![t] = [@ EXCEPT !["waiting"] = @ + 1]]
  /\ pc' = [pc EXCEPT ![t] = "handed"]
  /\ UNCHANGED <<procVars, connVars, ticks, published, acked, pubT, ackT, subVars, liveVars, waitVars, payloadVars, recvVars, cfgVars>>

\* atomic.AddInt64(&cnt.published, 1)
GoCountPublished(t) ==
  /\ agent = "go"
  /\ Alive
  /\ pc[t] = "handed"
  /\ published' = published + 1
  /\ pc' = [pc EXCEPT ![t] = "counted"]
  /\ UNCHANGED <<procVars, connVars, ticks, seq, assigned, handed, tok, acked, pubT, ackT, subVars, liveVars, waitVars, payloadVars, recvVars, cfgVars>>

\* the switch without its "/driver/ride" case
GoCountTopicOfferOnly(t) ==
  /\ agent = "go"
  /\ Alive
  /\ pc[t] = "counted"
  /\ pubT' = [pubT EXCEPT ![t] = IF t = "offer" THEN @ + 1 ELSE @]
  /\ pc' = [pc EXCEPT ![t] = "idle"]
  /\ UNCHANGED <<procVars, connVars, ticks, seq, assigned, handed, tok, published, acked, ackT, subVars, liveVars, waitVars, payloadVars, recvVars, cfgVars>>

\* switch topic { case ...: atomic.AddInt64(&cnt.pubOffer, 1) }
GoCountTopic(t) ==
  /\ agent = "go"
  /\ Alive
  /\ pc[t] = "counted"
  /\ pubT' = [pubT EXCEPT ![t] = @ + 1]
  /\ pc' = [pc EXCEPT ![t] = "idle"]
  /\ UNCHANGED <<procVars, connVars, ticks, seq, assigned, handed, tok, published, acked, ackT, subVars, liveVars, waitVars, payloadVars, recvVars, cfgVars>>

\* the timeout branch without its return: the message is counted as acknowledged
GoWaitTimeoutCounted(t) ==
  /\ agent = "go"
  /\ Alive
  /\ tok[t]["waiting"] > 0
  /\ Move(t, "waiting", "timedout")
  /\ acked' = acked + 1
  /\ ackT' = [ackT EXCEPT ![t] = @ + 1]
  /\ UNCHANGED <<procVars, connVars, ticks, pc, seq, assigned, handed, published, pubT, subVars, liveVars, waitVars, payloadVars, recvVars, cfgVars>>

\* the goroutine: !tok.WaitTimeout(10 * time.Second): log pub_timeout, return
GoWaitTimeout(t) ==
  /\ agent = "go"
  /\ Alive
  /\ tok[t]["waiting"] > 0
  /\ Move(t, "waiting", "timedout")
  /\ UNCHANGED <<procVars, connVars, ticks, pc, seq, assigned, handed, published, acked, pubT, ackT, subVars, liveVars, waitVars, payloadVars, recvVars, cfgVars>>

\* a publish error treated as fatal (log.Fatalf for log.Printf)
GoTokenErrorFatal(t) ==
  /\ agent = "go"
  /\ Alive
  /\ tok[t]["waiting"] > 0
  /\ Move(t, "waiting", "failed")
  /\ proc' = "exited"
  /\ exitCause' = "publish"
  /\ UNCHANGED <<agent, autoReconnect, connVars, ticks, pc, seq, assigned, handed, published, acked, pubT, ackT, subVars, liveVars, waitVars, payloadVars, recvVars, cfgVars>>

\* the goroutine: tok.Error() != nil: log pub_error, return
GoTokenError(t) ==
  /\ agent = "go"
  /\ Alive
  /\ tok[t]["waiting"] > 0
  /\ Move(t, "waiting", "failed")
  /\ UNCHANGED <<procVars, connVars, ticks, pc, seq, assigned, handed, published, acked, pubT, ackT, subVars, liveVars, waitVars, payloadVars, recvVars, cfgVars>>

\* the goroutine returning after the total, without the per-topic count
GoTokenOkTotalOnly(t) ==
  /\ agent = "go"
  /\ Alive
  /\ tok[t]["waiting"] > 0
  /\ Move(t, "waiting", "acked")
  /\ acked' = acked + 1
  /\ UNCHANGED <<procVars, connVars, ticks, pc, seq, assigned, handed, published, pubT, ackT, subVars, liveVars, waitVars, payloadVars, recvVars, cfgVars>>

\* the goroutine: the token completed without error: atomic.AddInt64(&cnt.acked, 1)
GoTokenOk(t) ==
  /\ agent = "go"
  /\ Alive
  /\ tok[t]["waiting"] > 0
  /\ Move(t, "waiting", "acking")
  /\ acked' = acked + 1
  /\ UNCHANGED <<procVars, connVars, ticks, pc, seq, assigned, handed, published, pubT, ackT, subVars, liveVars, waitVars, payloadVars, recvVars, cfgVars>>

\* the goroutine: switch topic { case ...: atomic.AddInt64(&cnt.ackOffer, 1) }
GoCountAck(t) ==
  /\ agent = "go"
  /\ Alive
  /\ tok[t]["acking"] > 0
  /\ Move(t, "acking", "acked")
  /\ ackT' = [ackT EXCEPT ![t] = @ + 1]
  /\ UNCHANGED <<procVars, connVars, ticks, pc, seq, assigned, handed, published, acked, pubT, subVars, liveVars, waitVars, payloadVars, recvVars, cfgVars>>

\* the broker's acknowledgment completes a token whose goroutine has already
\* returned on the timeout: nobody is waiting on it any more
GoLateAck(t) ==
  /\ agent = "go"
  /\ Alive
  /\ tok[t]["timedout"] > 0
  /\ Move(t, "timedout", "late")
  /\ UNCHANGED <<procVars, connVars, ticks, pc, seq, assigned, handed, published, acked, pubT, ackT, subVars, liveVars, waitVars, payloadVars, recvVars, cfgVars>>

(* ----------------------- Java publish pipeline ------------------------- *)
\* the scheduled task starts: long s = seq.incrementAndGet(); payload built
JavaTick(t) ==
  /\ agent = "java" /\ t \in PubTopics("java")
  /\ SchedulersRunning
  /\ pc[t] = "idle"
  /\ TotalTicks < MaxTicks
  /\ ticks' = [ticks EXCEPT ![t] = @ + 1]
  /\ seq' = [seq EXCEPT ![t] = NextSeq(@)]
  /\ assigned' = [assigned EXCEPT ![t] = Append(@, seq'[t])]
  /\ pc' = [pc EXCEPT ![t] = "checked"]
  /\ UNCHANGED <<procVars, connVars, handed, tok, published, acked, pubT, ackT, subVars, liveVars, waitVars, payloadVars, recvVars, cfgVars>>

\* cli.publish(...) returns a token; published[0]++
JavaPublish(t) ==
  /\ agent = "java"
  /\ Alive
  /\ pc[t] = "checked"
  /\ handed' = [handed EXCEPT ![t] = Append(@, seq[t])]
  /\ tok' = [tok EXCEPT ![t] = [@ EXCEPT !["waiting"] = @ + 1]]
  /\ published' = published + 1
  /\ pubT' = [pubT EXCEPT ![t] = @ + 1]
  /\ pc' = [pc EXCEPT ![t] = "idle"]
  /\ UNCHANGED <<procVars, connVars, ticks, seq, assigned, acked, ackT, subVars, liveVars, waitVars, payloadVars, recvVars, cfgVars>>

\* cli.publish(...) throws: catch (Exception e) { logf("publish exception") }
JavaPublishThrows(t) ==
  /\ agent = "java"
  /\ Alive
  /\ pc[t] = "checked"
  /\ pc' = [pc EXCEPT ![t] = "idle"]
  /\ UNCHANGED <<procVars, connVars, ticks, seq, assigned, handed, tok, published, acked, pubT, ackT, subVars, liveVars, waitVars, payloadVars, recvVars, cfgVars>>

\* IMqttActionListener.onSuccess: acked[0]++
JavaOnSuccess(t) ==
  /\ agent = "java"
  /\ Alive
  /\ tok[t]["waiting"] > 0
  /\ Move(t, "waiting", "acked")
  /\ acked' = acked + 1
  /\ ackT' = [ackT EXCEPT ![t] = @ + 1]
  /\ UNCHANGED <<procVars, connVars, ticks, pc, seq, assigned, handed, published, pubT, subVars, liveVars, waitVars, payloadVars, recvVars, cfgVars>>

\* a failure callback that publishes the failed message again
JavaOnFailureResend(t) ==
  /\ agent = "java"
  /\ Alive
  /\ tok[t]["waiting"] > 0
  /\ Len(handed[t]) > 0
  /\ tok' = [tok EXCEPT ![t] = [@ EXCEPT !["failed"] = @ + 1]]
  /\ handed' = [handed EXCEPT ![t] = Append(@, @[Len(@)])]
  /\ UNCHANGED <<procVars, connVars, ticks, pc, seq, assigned, published, acked, pubT, ackT, subVars, liveVars, waitVars, payloadVars, recvVars, cfgVars>>

\* IMqttActionListener.onFailure: logf("publish error")
JavaOnFailure(t) ==
  /\ agent = "java"
  /\ Alive
  /\ tok[t]["waiting"] > 0
  /\ Move(t, "waiting", "failed")
  /\ UNCHANGED <<procVars, connVars, ticks, pc, seq, assigned, handed, published, acked, pubT, ackT, subVars, liveVars, waitVars, payloadVars, recvVars, cfgVars>>

(* ------------------------- subscriptions ------------------------------- *)
SubOutcomes == {"ok", "error", "timeout"}

\* one try/catch around both subscribes: the first failure skips the rest
IssuedUntilError(a, out) ==
  IF a = "java" /\ out["offer"] # "ok" THEN {"offer"} ELSE SubTopics(a)

\* the Subscribe calls one run of the connect callback issues, given how each
\* call ends (Go: the single Subscribe; Java: one try/catch per subscribe)
Issued(a, out) == SubTopics(a)

\* OnConnectHandler / connectComplete: subscribe to every consumed topic, wait
\* for each, log a failure or a timeout
OnConnect ==
  /\ proc = "running"
  /\ handled < connects
  /\ \E out \in [SubTopics(agent) -> SubOutcomes] :
       /\ subIssued' = [t \in Topics |->
                          IF t \in Issued(agent, out) THEN subIssued[t] + 1 ELSE subIssued[t]]
       /\ lastSub' = [t \in Topics |->
                          IF t \in Issued(agent, out) THEN out[t] ELSE "none"]
       /\ subActive' = IF IsConnectionOpen
                       THEN {t \in Issued(agent, out) : out[t] = "ok"}
                       ELSE {}
  /\ handled' = handled + 1
  /\ UNCHANGED <<procVars, connVars, pubVars, liveVars, waitVars, payloadVars, recvVars, cfgVars>>

(* ------------------------- liveness monitor ---------------------------- *)
\* a level report: "connection dead" at every poll that finds the connection closed
EmitLevel(p, c) ==
  IF ~c THEN <<"dead">>
  ELSE IF ~p THEN <<"alive">>
  ELSE <<>>

\* if prev && !cur { log "connection dead" }; if !prev && cur { log "connection alive" }
Emit(p, c) ==
  IF p /\ ~c THEN <<"dead">>
  ELSE IF ~p /\ c THEN <<"alive">>
  ELSE <<>>

\* Go: the goroutine starts, prev := client.IsConnectionOpen();
\* Java: the stats task is scheduled, prevConn = { false }
LiveStart ==
  /\ proc = "running"
  /\ monitor = "off"
  /\ monitor' = "on"
  /\ prev' = IF agent = "go" THEN IsConnectionOpen ELSE FALSE
  /\ seen' = <<prev'>>
  /\ UNCHANGED <<procVars, connVars, pubVars, subVars, polls, events, snap, waitVars, payloadVars, recvVars, cfgVars>>

\* the poll without prev = cur
LivePollStalePrev ==
  /\ monitor = "on"
  /\ polls < MaxPolls
  /\ polls' = polls + 1
  /\ events' = events \o Emit(prev, IsConnectionOpen)
  /\ prev' = prev
  /\ seen' = Append(seen, IsConnectionOpen)
  /\ UNCHANGED <<procVars, connVars, pubVars, subVars, monitor, snap, waitVars, payloadVars, recvVars, cfgVars>>

\* one tick of the 1 s ticker: cur := IsConnectionOpen(); log an edge; prev = cur
LivePoll ==
  /\ monitor = "on"
  /\ polls < MaxPolls
  /\ polls' = polls + 1
  /\ events' = events \o Emit(prev, IsConnectionOpen)
  /\ prev' = IsConnectionOpen
  /\ seen' = Append(seen, IsConnectionOpen)
  /\ UNCHANGED <<procVars, connVars, pubVars, subVars, monitor, snap, waitVars, payloadVars, recvVars, cfgVars>>

(* ----------------------------- stats loop ------------------------------ *)
\* Go: <-t.C; totalInFlight := published - acked; offerIn, rideIn; then the
\* first arguments of log.Printf: the per-topic counters
GoStatsLoad ==
  /\ agent = "go"
  /\ proc = "running"
  /\ snap["phase"] = "idle"
  /\ snap' = [phase |-> "loaded", inflight |-> published - acked,
              pubT |-> SumOver(pubT, Topics), ackT |-> SumOver(ackT, Topics),
              pub |-> snap["pub"], ack |-> snap["ack"]]
  /\ UNCHANGED <<procVars, connVars, pubVars, subVars, prev, monitor, polls, events, seen, waitVars, payloadVars, recvVars, cfgVars>>

\* the last arguments with total_pub and total_ack exchanged
GoStatsLogSwapped ==
  /\ agent = "go"
  /\ Alive
  /\ snap["phase"] = "loaded"
  /\ snap' = [snap EXCEPT !["phase"] = "logged", !["pub"] = acked, !["ack"] = published]
  /\ UNCHANGED <<procVars, connVars, pubVars, subVars, prev, monitor, polls, events, seen, waitVars, payloadVars, recvVars, cfgVars>>

\* Go: the last arguments of log.Printf: atomic.LoadInt64(&cnt.published),
\* atomic.LoadInt64(&cnt.acked), totalInFlight; the stats line is logged
GoStatsLog ==
  /\ agent = "go"
  /\ Alive
  /\ snap["phase"] = "loaded"
  /\ snap' = [snap EXCEPT !["phase"] = "logged", !["pub"] = published, !["ack"] = acked]
  /\ UNCHANGED <<procVars, connVars, pubVars, subVars, prev, monitor, polls, events, seen, waitVars, payloadVars, recvVars, cfgVars>>

\* the values a thread can read from a plain (non-volatile) long cell that
\* another thread has incremented up to v, with nothing ordering the read
\* after the writes
PlainRead(v) == 0..v

\* Java: the stats task: cli.getInFlightMessageCount() (the transport's own
\* count), then published[0] and acked[0], plain long cells written by the
\* scheduler thread and by the transport's callback thread
JavaStats ==
  /\ agent = "java"
  /\ proc = "running"
  /\ snap["phase"] = "idle"
  /\ \E p \in PlainRead(published), a \in PlainRead(acked) :
       snap' = [phase |-> "logged", inflight |-> Inflight,
                pubT |-> p, ackT |-> a, pub |-> p, ack |-> a]
  /\ UNCHANGED <<procVars, connVars, pubVars, subVars, prev, monitor, polls, events, seen, waitVars, payloadVars, recvVars, cfgVars>>

(* ------------------------------ shutdown ------------------------------- *)
\* Go: sig := <-sigc; closed.Store(true).  Java: the JVM starts the shutdown
\* hook: logf("shutting down...")
Signal ==
  /\ proc = "running"
  /\ proc' = "closed"
  /\ UNCHANGED <<agent, autoReconnect, exitCause, connVars, pubVars, subVars, liveVars, waitVars, payloadVars, recvVars, cfgVars>>

\* Go: offerTicker.Stop(); rideTicker.Stop().
\* Java: ses.shutdownNow(); stats.shutdownNow()
StopSchedulers ==
  /\ proc = "closed"
  /\ proc' = "stopped"
  /\ UNCHANGED <<agent, autoReconnect, exitCause, connVars, pubVars, subVars, liveVars, waitVars, payloadVars, recvVars, cfgVars>>

\* Go: if client.IsConnectionOpen() { client.Disconnect(250) }.
\* Java: if (cli.isConnected()) cli.disconnect(); cli.close()
Disconnect ==
  /\ proc = "stopped"
  /\ proc' = "disconnected"
  /\ conn' = IF IsConnectionOpen THEN "closed" ELSE conn
  /\ subActive' = IF IsConnectionOpen THEN {} ELSE subActive
  /\ UNCHANGED <<agent, autoReconnect, exitCause, connects, losses, attempts, pubVars, handled, subIssued, lastSub, liveVars, waitVars, payloadVars, recvVars, cfgVars>>

\* Go: main returns.  Java: the hook returns and the JVM halts
Exit ==
  /\ proc = "disconnected"
  /\ proc' = "exited"
  /\ exitCause' = "signal"
  /\ UNCHANGED <<agent, autoReconnect, connVars, pubVars, subVars, liveVars, waitVars, payloadVars, recvVars, cfgVars>>

(* ---------------------- one acknowledgment wait ------------------------ *)
\* the configurations of retry.write_timeout_ms, in seconds
WriteTimeouts == 1..MaxWriteTimeout

WaitInit ==
  /\ ProcInit
  /\ writeTimeout \in WriteTimeouts
  /\ WaitIdle
  /\ PayloadIdle
  /\ RecvIdle
  /\ ConfigIdle

\* client.Publish / cli.publish has returned the token: the goroutine enters
\* tok.WaitTimeout, the Java listener is registered
WaitStart ==
  /\ waitState = "none"
  /\ waitState' = "pending"
  /\ UNCHANGED <<procVars, connVars, pubVars, subVars, liveVars, writeTimeout, waitAge, payloadVars, recvVars, cfgVars>>

\* the number of seconds after which the wait gives up: Go waits
\* 10 * time.Second whatever the configuration says, Java has no timeout
WaitLimit(a, timeout) == IF a = "go" THEN AckWait ELSE MaxWait

\* one second passes with the token still incomplete
WaitSecond ==
  /\ waitState = "pending"
  /\ waitAge < WaitLimit(agent, writeTimeout)
  /\ waitAge' = waitAge + 1
  /\ UNCHANGED <<procVars, connVars, pubVars, subVars, liveVars, writeTimeout, waitState, payloadVars, recvVars, cfgVars>>

\* the token completes without error: acked is counted / onSuccess runs
WaitAcked ==
  /\ waitState = "pending"
  /\ waitState' = "acked"
  /\ UNCHANGED <<procVars, connVars, pubVars, subVars, liveVars, writeTimeout, waitAge, payloadVars, recvVars, cfgVars>>

\* the token completes with an error: pub_error is logged / onFailure runs
WaitError ==
  /\ waitState = "pending"
  /\ waitState' = "error"
  /\ UNCHANGED <<procVars, connVars, pubVars, subVars, liveVars, writeTimeout, waitAge, payloadVars, recvVars, cfgVars>>

\* Go: tok.WaitTimeout(10 * time.Second) returns false: pub_timeout is logged
GoWaitExpires ==
  /\ agent = "go"
  /\ waitState = "pending"
  /\ waitAge = AckWait
  /\ waitState' = "timedout"
  /\ UNCHANGED <<procVars, connVars, pubVars, subVars, liveVars, writeTimeout, waitAge, payloadVars, recvVars, cfgVars>>

(* --------------------------- payload build ----------------------------- *)
\* the publish times and sequence numbers payloads are built for
PayloadTimes == {0, 12, 345}
PayloadSeqs == {1, 10, 123}

PayloadInit ==
  /\ ProcInit
  /\ writeTimeout = DefaultWriteTimeout
  /\ WaitIdle
  /\ plTs \in PayloadTimes
  /\ plSeq \in PayloadSeqs
  /\ plSize \in (-2)..MaxSize
  /\ payload = <<>>
  /\ parsed = [by |-> "none", seq |-> 0, ts |-> 0]
  /\ RecvIdle
  /\ ConfigIdle

Max(a, b) == IF a >= b THEN a ELSE b

Digit(d) == <<"0", "1", "2", "3", "4", "5", "6", "7", "8", "9">>[d + 1]

\* the decimal digits of a natural number
RECURSIVE Digits(_)
Digits(n) == IF n < 10 THEN <<Digit(n)>> ELSE Digits(n \div 10) \o <<Digit(n % 10)>>

\* the verb %d
FormatInt(n) == IF n < 0 THEN <<"-">> \o Digits(0 - n) ELSE Digits(n)

\* the header with "," where the wire contract has "|"
PrefixCommas(ts, s) ==
  <<"t", "s", "=">> \o FormatInt(ts) \o <<",", "s", "e", "q", "=">> \o FormatInt(s) \o <<",">>

\* fmt.Sprintf("ts=%d|seq=%d|", ts, seq) / String.format("ts=%d|seq=%d|", ...)
Prefix(ts, s) ==
  <<"t", "s", "=">> \o FormatInt(ts) \o <<"|", "s", "e", "q", "=">> \o FormatInt(s) \o <<"|">>

\* a payload of exactly size bytes: the prefix cut off when it is longer
GoPayloadTruncating(size, prefix) ==
  [i \in 1..size |-> IF i <= Len(prefix) THEN prefix[i] ELSE "x"]

\* Go: pad := size - len(prefix); if pad < 0 { pad = 0 };
\* make([]byte, len(prefix)+pad); copy; fill the rest with 'x'
GoPayload(size, prefix) ==
  LET pad0 == size - Len(prefix)
      pad == IF pad0 < 0 THEN 0 ELSE pad0
  IN  [i \in 1..(Len(prefix) + pad) |-> IF i <= Len(prefix) THEN prefix[i] ELSE "x"]

\* "x".repeat(n)
Repeat(n) == [i \in 1..n |-> "x"]

\* Java: size = Math.max(0, cfg.payloadLocation - prefix.length());
\* body = prefix + "x".repeat(size); body.getBytes(UTF_8)
JavaPayload(size, prefix) ==
  prefix \o Repeat(Max(0, size - Len(prefix)))

\* Go: publish builds the payload of a message
GoBuildPayload ==
  /\ agent = "go"
  /\ payload = <<>>
  /\ payload' = GoPayload(plSize, Prefix(plTs, plSeq))
  /\ UNCHANGED <<procVars, connVars, pubVars, subVars, liveVars, waitVars, plTs, plSeq, plSize, parsed, recvVars, cfgVars>>

\* Java: the publisher task builds the payload of a message
JavaBuildPayload ==
  /\ agent = "java"
  /\ payload = <<>>
  /\ payload' = JavaPayload(plSize, Prefix(plTs, plSeq))
  /\ UNCHANGED <<procVars, connVars, pubVars, subVars, liveVars, waitVars, plTs, plSeq, plSize, parsed, recvVars, cfgVars>>

(* ------------------------------ parsers -------------------------------- *)
IsDigit(c) == c \in {"0", "1", "2", "3", "4", "5", "6", "7", "8", "9"}

\* c - '0'
DigitValue(c) == CHOOSE d \in 0..9 : Digit(d) = c

\* strings.Index / String.indexOf(str, fromIndex): the position (from 1) of the
\* first occurrence of pat in s that starts at from or later, 0 when there is none
IndexFrom(s, pat, from) ==
  LET hits == {i \in from..(Len(s) - Len(pat) + 1) : SubSeq(s, i, i + Len(pat) - 1) = pat}
  IN  IF hits = {} THEN 0 ELSE CHOOSE i \in hits : \A k \in hits : i <= k

\* Go: for k := i; k < j; k++ { if c < '0' || c > '9' { return -1 }; n = n*10 + int64(c-'0') }
RECURSIVE GoDigitLoop(_, _)
GoDigitLoop(str, n) ==
  IF str = <<>> THEN n
  ELSE IF ~IsDigit(Head(str)) THEN -1
  ELSE GoDigitLoop(Tail(str), n * 10 + DigitValue(Head(str)))

\* Go: parseSeq
GoParseSeq(b) ==
  LET i == IndexFrom(b, <<"s", "e", "q", "=">>, 1)
  IN  IF i = 0 THEN -1
      ELSE LET j == IndexFrom(b, <<"|">>, i + 4)
           IN  IF j = 0 THEN -1
               ELSE GoDigitLoop(SubSeq(b, i + 4, j - 1), 0)

\* the digits of a Long.parseLong argument: what follows an optional sign
JavaLongBody(str) ==
  IF str # <<>> /\ Head(str) \in {"+", "-"} THEN Tail(str) ELSE str

\* Long.parseLong returns (does not throw NumberFormatException)
JavaParseLongOk(str) ==
  /\ JavaLongBody(str) # <<>>
  /\ \A k \in 1..Len(JavaLongBody(str)) : IsDigit(JavaLongBody(str)[k])

\* Long.parseLong
JavaParseLong(str) ==
  IF Head(str) = "-" THEN 0 - GoDigitLoop(JavaLongBody(str), 0)
  ELSE GoDigitLoop(JavaLongBody(str), 0)

\* Java: the body shared by parseSeq and parseTs: indexOf(key), indexOf('|', i),
\* Long.parseLong(s.substring(i, j)), catch (Exception ignored) { return -1; }
JavaParseField(b, key) ==
  LET i == IndexFrom(b, key, 1)
  IN  IF i = 0 THEN -1
      ELSE LET j == IndexFrom(b, <<"|">>, i + Len(key))
           IN  IF j = 0 THEN -1
               ELSE IF JavaParseLongOk(SubSeq(b, i + Len(key), j - 1))
                    THEN JavaParseLong(SubSeq(b, i + Len(key), j - 1))
                    ELSE -1

\* Java: parseSeq
JavaParseSeq(b) == JavaParseField(b, <<"s", "e", "q", "=">>)

\* Java: parseTs
JavaParseTs(b) == JavaParseField(b, <<"t", "s", "=">>)

\* the Go backend's handler parses the payload built by the peer
GoParse ==
  /\ payload # <<>>
  /\ parsed["by"] = "none"
  /\ parsed' = [by |-> "go", seq |-> GoParseSeq(payload), ts |-> -1]
  /\ UNCHANGED <<procVars, connVars, pubVars, subVars, liveVars, waitVars, plTs, plSeq, plSize, payload, recvVars, cfgVars>>

\* the Java client's messageArrived parses the payload built by the peer
JavaParse ==
  /\ payload # <<>>
  /\ parsed["by"] = "none"
  /\ parsed' = [by |-> "java", seq |-> JavaParseSeq(payload), ts |-> JavaParseTs(payload)]
  /\ UNCHANGED <<procVars, connVars, pubVars, subVars, liveVars, waitVars, plTs, plSeq, plSize, payload, recvVars, cfgVars>>

(* ------------------------------ receive -------------------------------- *)
\* a field closed by "|", and a field left open
Closed(text) == [form |-> "closed", text |-> text]
Open(text) == [form |-> "open", text |-> text]

\* the inbound messages: what the sender put where the ts field and the seq
\* field belong (nothing, a closed field holding a decimal, zero, nothing, a
\* non-number, a signed number, or a field left open) and what follows
Messages ==
  { [ts |-> Closed(<<"1", "2">>), seq |-> Closed(<<"7">>),      tail |-> <<"x", "x">>],
    [ts |-> Closed(<<"1", "2">>), seq |-> Closed(<<"7">>),      tail |-> <<>>],
    [ts |-> Closed(<<"0">>),      seq |-> Closed(<<"7">>),      tail |-> <<>>],
    [ts |-> AbsentField,          seq |-> AbsentField,          tail |-> <<"x", "x">>],
    [ts |-> AbsentField,          seq |-> AbsentField,          tail |-> <<>>],
    [ts |-> Closed(<<"1", "2">>), seq |-> AbsentField,          tail |-> <<"x", "x">>],
    [ts |-> AbsentField,          seq |-> Closed(<<"7">>),      tail |-> <<>>],
    [ts |-> Closed(<<"1", "2">>), seq |-> Closed(<<>>),         tail |-> <<"x", "x">>],
    [ts |-> Closed(<<>>),         seq |-> Closed(<<"7">>),      tail |-> <<>>],
    [ts |-> Closed(<<"1", "2">>), seq |-> Closed(<<"4", "x">>), tail |-> <<>>],
    [ts |-> Closed(<<"1", "a">>), seq |-> Closed(<<"7">>),      tail |-> <<>>],
    [ts |-> Closed(<<"1", "2">>), seq |-> Closed(<<"-", "5">>), tail |-> <<>>],
    [ts |-> Closed(<<"1", "2">>), seq |-> Open(<<"7">>),        tail |-> <<"x", "x">>],
    [ts |-> Open(<<"1", "2">>),   seq |-> Closed(<<"7">>),      tail |-> <<>>] }

\* the clock at the time of a delivery
RecvTimes == {5, 12, 20}

\* the bytes of one field
FieldBytes(key, f) ==
  IF f["form"] = "absent" THEN <<>>
  ELSE key \o f["text"] \o (IF f["form"] = "closed" THEN <<"|">> ELSE <<>>)

\* the payload of an inbound message
Raw(m) ==
  FieldBytes(<<"t", "s", "=">>, m["ts"]) \o FieldBytes(<<"s", "e", "q", "=">>, m["seq"]) \o m["tail"]

Deliveries == SumOver(delivered, Topics)

\* Go: the /driver/location message handler
GoReceive(t, m, now) ==
  /\ agent = "go"
  /\ Alive
  /\ IsConnectionOpen
  /\ t \in subActive
  /\ Deliveries < MaxDeliveries
  /\ delivered' = [delivered EXCEPT ![t] = @ + 1]
  /\ received' = received + 1
  /\ recvT' = [recvT EXCEPT !["location"] = @ + 1]
  /\ rx' = [topic |-> t, sent |-> [ts |-> m["ts"], seq |-> m["seq"]],
            payload |-> Raw(m), recvTs |-> now,
            seq |-> GoParseSeq(Raw(m)),
            ts |-> -1, hasLat |-> FALSE, lat |-> -1]
  /\ UNCHANGED <<procVars, connVars, pubVars, subVars, liveVars, waitVars, payloadVars, cfgVars>>

\* Java: messageArrived counting only the messages whose prefix parsed
JavaReceiveParsedOnly(t, m, now) ==
  LET raw   == Raw(m)
      pubTs == JavaParseTs(raw)
      ok    == JavaParseSeq(raw) >= 0 /\ pubTs >= 0
  IN  /\ agent = "java"
      /\ Alive
      /\ IsConnectionOpen
      /\ t \in subActive
      /\ Deliveries < MaxDeliveries
      /\ delivered' = [delivered EXCEPT ![t] = @ + 1]
      /\ rx' = [topic |-> t, sent |-> [ts |-> m["ts"], seq |-> m["seq"]],
                payload |-> raw, recvTs |-> now,
                seq |-> JavaParseSeq(raw), ts |-> pubTs, hasLat |-> TRUE,
                lat |-> IF pubTs > 0 /\ now >= pubTs THEN now - pubTs ELSE -1]
      /\ recvT' = IF ok /\ t \in {"offer", "ride"} THEN [recvT EXCEPT ![t] = @ + 1] ELSE recvT
      /\ UNCHANGED <<procVars, connVars, pubVars, subVars, liveVars, waitVars, payloadVars, received, cfgVars>>

\* Java: messageArrived
JavaReceive(t, m, now) ==
  LET raw   == Raw(m)
      pubTs == JavaParseTs(raw)
  IN  /\ agent = "java"
      /\ Alive
      /\ IsConnectionOpen
      /\ t \in subActive
      /\ Deliveries < MaxDeliveries
      /\ delivered' = [delivered EXCEPT ![t] = @ + 1]
      /\ rx' = [topic |-> t, sent |-> [ts |-> m["ts"], seq |-> m["seq"]],
                payload |-> raw, recvTs |-> now,
                seq |-> JavaParseSeq(raw), ts |-> pubTs, hasLat |-> TRUE,
                lat |-> IF pubTs > 0 /\ now >= pubTs THEN now - pubTs ELSE -1]
      /\ recvT' = IF t = "offer" THEN [recvT EXCEPT !["offer"] = @ + 1]
                  ELSE IF t = "ride" THEN [recvT EXCEPT !["ride"] = @ + 1]
                  ELSE recvT
      /\ UNCHANGED <<procVars, connVars, pubVars, subVars, liveVars, waitVars, payloadVars, received, cfgVars>>

(* --------------------------- specifications ---------------------------- *)
Startup ==
  \/ LoadConfigOk
  \/ LoadConfigFail
  \/ SetupOk
  \/ JavaSetupFail
  \/ ConnectOk
  \/ GoConnectFail
  \/ JavaConnectFail

Connection ==
  \/ ConnectionLost
  \/ ReconnectOk

Next ==
  \/ Startup
  \/ Connection
  \/ \E t \in Topics : GoTick(t)
  \/ \E t \in Topics : GoPublish(t)
  \/ \E t \in Topics : GoCountPublished(t)
  \/ \E t \in Topics : GoCountTopic(t)
  \/ \E t \in Topics : GoWaitTimeout(t)
  \/ \E t \in Topics : GoTokenError(t)
  \/ \E t \in Topics : GoTokenOk(t)
  \/ \E t \in Topics : GoCountAck(t)
  \/ \E t \in Topics : GoLateAck(t)
  \/ \E t \in Topics : JavaTick(t)
  \/ \E t \in Topics : JavaPublish(t)
  \/ \E t \in Topics : JavaPublishThrows(t)
  \/ \E t \in Topics : JavaOnSuccess(t)
  \/ \E t \in Topics : JavaOnFailure(t)

Spec == Init /\ [][Next]_vars

\* the connection and its connect callback
SubNext ==
  \/ Startup
  \/ Connection
  \/ OnConnect

SubSpec == Init /\ [][SubNext]_vars

\* the whole process: startup, connection, connect callback and publishers
ProcSpec == Init /\ [][Next \/ OnConnect]_vars

\* the transport runs the callback of every connect it completes
FairSubSpec == SubSpec /\ WF_vars(OnConnect)

\* the connection and the liveness monitor
LiveNext ==
  \/ Startup
  \/ Connection
  \/ LiveStart
  \/ LivePoll

LiveSpec == Init /\ [][LiveNext]_vars

\* the shutdown sequence of the main goroutine / of the shutdown hook
Shutdown ==
  \/ Signal
  \/ StopSchedulers
  \/ Disconnect
  \/ Exit

\* the publish pipeline and the shutdown
ShutSpec == Init /\ [][Next \/ Shutdown]_vars

\* the stats loop / the stats task
Stats ==
  \/ GoStatsLoad
  \/ GoStatsLog
  \/ JavaStats

\* the publish pipeline on a connection that stays up, and the stats loop
StatsNext ==
  \/ Startup
  \/ \E t \in Topics : GoTick(t)
  \/ \E t \in Topics : GoPublish(t)
  \/ \E t \in Topics : GoCountPublished(t)
  \/ \E t \in Topics : GoCountTopic(t)
  \/ \E t \in Topics : GoWaitTimeout(t)
  \/ \E t \in Topics : GoTokenError(t)
  \/ \E t \in Topics : GoTokenOk(t)
  \/ \E t \in Topics : GoCountAck(t)
  \/ \E t \in Topics : JavaTick(t)
  \/ \E t \in Topics : JavaPublish(t)
  \/ \E t \in Topics : JavaPublishThrows(t)
  \/ \E t \in Topics : JavaOnSuccess(t)
  \/ \E t \in Topics : JavaOnFailure(t)
  \/ Stats

StatsSpec == Init /\ [][StatsNext]_vars

\* one acknowledgment wait and its clock
WaitNext ==
  \/ WaitStart
  \/ WaitSecond
  \/ WaitAcked
  \/ WaitError
  \/ GoWaitExpires

WaitSpec == WaitInit /\ [][WaitNext]_vars

\* the consumer: start-up, subscriptions and inbound deliveries
Receive ==
  \E t \in Topics, m \in Messages, now \in RecvTimes :
    \/ GoReceive(t, m, now)
    \/ JavaReceive(t, m, now)

RecvNext ==
  \/ Startup
  \/ OnConnect
  \/ Receive

RecvSpec == Init /\ [][RecvNext]_vars

\* connected operation: the publishers and the outcomes of their publishes,
\* without connection losses
TickNext ==
  \/ Startup
  \/ \E t \in Topics : GoTick(t)
  \/ \E t \in Topics : GoPublish(t)
  \/ \E t \in Topics : GoCountPublished(t)
  \/ \E t \in Topics : GoCountTopic(t)
  \/ \E t \in Topics : GoWaitTimeout(t)
  \/ \E t \in Topics : GoTokenError(t)
  \/ \E t \in Topics : GoTokenOk(t)
  \/ \E t \in Topics : GoCountAck(t)
  \/ \E t \in Topics : JavaTick(t)
  \/ \E t \in Topics : JavaPublish(t)
  \/ \E t \in Topics : JavaPublishThrows(t)
  \/ \E t \in Topics : JavaOnSuccess(t)
  \/ \E t \in Topics : JavaOnFailure(t)

\* a publisher that received its tick runs to the end of publish() (goroutine /
\* scheduler thread are scheduled); the Go wait on a token ends (token done or
\* WaitTimeout); the goroutine then runs on to its per-topic count; the
\* transport completes every Java token and calls the listener
TickFairness ==
  \A t \in Topics :
    /\ WF_vars(GoPublish(t))
    /\ WF_vars(GoCountPublished(t))
    /\ WF_vars(GoCountTopic(t))
    /\ WF_vars(GoTokenOk(t) \/ GoTokenError(t) \/ GoWaitTimeout(t))
    /\ WF_vars(GoCountAck(t))
    /\ WF_vars(JavaPublish(t) \/ JavaPublishThrows(t))
    /\ WF_vars(JavaOnSuccess(t) \/ JavaOnFailure(t))

TickSpec == Init /\ [][TickNext]_vars /\ TickFairness

\* start-up from every YAML file
ConfigSpec == ConfigInit /\ [][Startup]_vars

\* the payload builders applied to every input, and the parsers to what they built
PayloadNext ==
  \/ GoBuildPayload
  \/ JavaBuildPayload
  \/ GoParse
  \/ JavaParse

PayloadSpec == PayloadInit /\ [][PayloadNext]_vars

(* ------------------------------ claims --------------------------------- *)

\* C1: for each published topic the sequencer hands out 1 first and exactly
\* previous+1 afterwards: the numbers assigned so far are 1, 2, ..., n with no
\* gap and no repeat, and the counter equals n (it is never reset), also
\* across disconnects and reconnects.
C1_SequenceNumbersConsecutive ==
  \A t \in Topics :
    /\ seq[t] = Len(assigned[t])
    /\ \A i \in 1..Len(assigned[t]) : assigned[t][i] = i

\* C1 witness: the Go backend has just assigned 2 in a tick that follows a tick
\* skipped while the connection was down, so after a loss and a reconnect.
C1_Witness ==
  \E t \in Topics :
    /\ pc[t] = "handed" /\ seq[t] = 2 /\ ticks[t] = 3
    /\ losses >= 1 /\ connects >= 2

\* C2: every message handed to the transport is counted exactly once in its
\* topic's published counter and in the total, whatever becomes of its token;
\* nothing else moves a published counter. A Go publisher between
\* client.Publish and its two increments is the only one that lags.
C2_PublishedCountsHandedMessages ==
  /\ \A t \in Topics :
       pubT[t] = Len(handed[t]) - (IF pc[t] \in {"handed", "counted"} THEN 1 ELSE 0)
  /\ published = SumOver([t \in Topics |-> Len(handed[t])], Topics)
                 - Cardinality({t \in Topics : pc[t] = "handed"})

\* C2 witness: three messages of one topic counted as published, one
\* acknowledged, one timed out, one failed.
C2_Witness ==
  \E t \in Topics :
    /\ pubT[t] = 3 /\ published = 3
    /\ tok[t]["acked"] = 1 /\ tok[t]["timedout"] = 1 /\ tok[t]["failed"] = 1

\* C3: the acknowledged counter of a topic counts exactly the messages whose
\* token completed without error before the wait timed out: never one that
\* timed out (also when its acknowledgment arrives later) or failed. The total
\* also counts the Go goroutines between their two increments.
C3_AckedCountsCompletedTokens ==
  /\ \A t \in Topics : ackT[t] = tok[t]["acked"]
  /\ acked = SumOver([t \in Topics |-> tok[t]["acked"] + tok[t]["acking"]], Topics)

\* C3 witness: of three messages of one topic one is acknowledged and counted,
\* one failed, and one was acknowledged only after its wait had timed out.
C3_Witness ==
  \E t \in Topics :
    /\ tok[t]["acked"] = 1 /\ ackT[t] = 1 /\ acked = 1
    /\ tok[t]["late"] = 1 /\ tok[t]["failed"] = 1

\* C4 (as claimed, for the Go backend): the messages published and still
\* awaiting their outcome never number more than max_inflight.
C4_GoInflightWithinMax ==
  agent = "go" => Inflight <= MaxInflight

\* C5 (as claimed): a tick that fires while the connection is not open still
\* creates a sequenced message.
C5_TickWhileDownSequencesMessage ==
  [][\A t \in Topics :
       (ticks'[t] = ticks[t] + 1 /\ ~IsConnectionOpen) => seq'[t] = seq[t] + 1]_vars

\* C7: once the callback of a connect has run, a Subscribe has been issued for
\* every consumed topic (one per callback run, whatever the outcome of the
\* others); the callback leaves the connection and the process as they are;
\* and the callback of every connect and reconnect does run.
C7_ResubscribeOnEveryConnect ==
  /\ [](\A t \in SubTopics(agent) : subIssued[t] = handled)
  /\ [][handled' = handled + 1 => (conn' = conn /\ proc' = proc)]_vars
  /\ \A k \in 1..(MaxLosses + 1) : (connects = k) ~> (handled >= k)

\* C7 witness: the Java client after a reconnect: the callback ran twice, the
\* last time the first subscribe failed, the second one was still issued and
\* succeeded, and the connection is open.
C7_Witness ==
  /\ agent = "java" /\ connects = 2 /\ handled = 2
  /\ lastSub["offer"] = "error" /\ lastSub["ride"] = "ok"
  /\ subIssued["ride"] = 2 /\ IsConnectionOpen

\* the edges of a sequence of polled values: one event per change of value
RECURSIVE Edges(_)
Edges(s) ==
  IF Len(s) <= 1 THEN <<>>
  ELSE Edges(SubSeq(s, 1, Len(s) - 1))
       \o (IF s[Len(s)] = s[Len(s) - 1] THEN <<>>
           ELSE IF s[Len(s)] THEN <<"alive">> ELSE <<"dead">>)

\* C9: the events logged are exactly the edges of the polled values: a poll
\* logs "connection dead" when the value went from alive to dead, "connection
\* alive" when it went from dead to alive, and nothing when it did not change.
C9_EventsAreEdges ==
  /\ Len(seen) = (IF monitor = "on" THEN polls + 1 ELSE 0)
  /\ events = Edges(seen)

\* C9 witness: alive, alive, dead, dead, alive was polled and exactly one
\* "dead" and one "alive" were logged.
C9_Witness ==
  /\ seen = <<TRUE, TRUE, FALSE, FALSE, TRUE>>
  /\ events = <<"dead", "alive">>

C11_NoTickAfterTerminalLoss ==
  [][conn = "lost" => \A t \in Topics : ticks'[t] = ticks[t]]_vars

\* C12 (amended): once the schedulers are stopped no further tick is issued
\* and no publisher starts on a tick; a sequence number is assigned or a
\* message is published after that only by a publisher that had received its
\* tick before the stop and had not finished it (at most one per topic).
C12_NoTickIssuedAfterStop ==
  [][(proc \in {"stopped", "disconnected", "exited"}) =>
       \A t \in Topics :
         ticks'[t] = ticks[t]
         /\ (pc'[t] = "checked" => pc[t] = "checked")
         /\ ((seq'[t] # seq[t] \/ handed'[t] # handed[t])
               => (pc[t] = "checked" /\ pc'[t] # "checked"))]_vars

\* C12 witness: the Go backend has stopped its tickers and disconnected while
\* a publisher that received its tick before the stop has not published yet.
C12_Witness ==
  /\ agent = "go" /\ proc = "disconnected" /\ conn = "closed"
  /\ \E t \in Topics : pc[t] = "checked" /\ ticks[t] = 2 /\ seq[t] = 1

\* C12 (as claimed): once the schedulers are stopped no sequence number is
\* assigned and no message is published.
C12_NothingSequencedOrPublishedAfterStop ==
  [][(proc \in {"stopped", "disconnected", "exited"}) =>
       (seq' = seq /\ handed' = handed)]_vars

\* C13 (as claimed): the process does not exit on a shutdown signal while a
\* published message is still awaiting its outcome.
C13_NoExitWhileAwaitingOutcome ==
  (proc = "exited" /\ exitCause = "signal") => Inflight = 0

\* C14 (as claimed): no increment is lost to a reader: the published and
\* acknowledged totals a stats line reports are the number of increments
\* performed on those counters when the line is logged.
C14_StatsReadsSeeEveryIncrement ==
  [][(snap["phase"] # "logged" /\ snap'["phase"] = "logged") =>
       (snap'["pub"] = published /\ snap'["ack"] = acked)]_vars

\* C15 (amended): in every stats line of the Go backend each total counter is
\* at least the sum of the per-topic counters reported with it: the total is
\* incremented before, and read after, the per-topic counter.
C15_TotalsCoverTopicCounters ==
  (agent = "go" /\ snap["phase"] = "logged") =>
    (snap["pub"] >= snap["pubT"] /\ snap["ack"] >= snap["ackT"])

\* C15 witness: a stats line of the Go backend whose total_pub is one more
\* than pubOffer + pubRide and whose total_ack is one more than ackOffer +
\* ackRide.
C15_Witness ==
  /\ agent = "go" /\ snap["phase"] = "logged"
  /\ snap["pub"] = 2 /\ snap["pubT"] = 1
  /\ snap["ack"] = 1 /\ snap["ackT"] = 0

\* C15 (as claimed): in every stats line of the Go backend each total counter
\* equals the sum of the per-topic counters it aggregates.
C15_TotalsEqualTopicSums ==
  (agent = "go" /\ snap["phase"] = "logged") =>
    (snap["pub"] = snap["pubT"] /\ snap["ack"] = snap["ackT"])

\* C16 (as claimed): the inflight value of a Go stats line does not count
\* messages whose wait timed out or whose token reported an error: it never
\* exceeds the number of messages still awaiting their outcome.
C16_InflightDropsFailedMessages ==
  [][(agent = "go" /\ snap["phase"] = "idle" /\ snap'["phase"] = "loaded") =>
       snap'["inflight"] <= Inflight]_vars

\* C17: no (topic, sequence number) pair is handed to the transport's publish
\* twice: the numbers handed for a topic are pairwise different, also once
\* waits have timed out and tokens have reported errors.
C17_NeverResends ==
  \A t \in Topics :
    \A i, j \in 1..Len(handed[t]) : i # j => handed[t][i] # handed[t][j]

\* C17 witness: three messages of one topic were handed to the transport; the
\* wait of one timed out, the token of another reported an error, and the
\* third was handed after both.
C17_Witness ==
  \E t \in Topics :
    /\ handed[t] = <<1, 2, 3>>
    /\ tok[t]["timedout"] = 1 /\ tok[t]["failed"] = 1 /\ tok[t]["waiting"] = 1

C18_WaitBoundedByWriteTimeout ==
  waitState = "pending" => waitAge <= writeTimeout

\* C20: the payload built for a header of length h and a target size s starts
\* with the whole header, continues with filler bytes only, and is max(h, s)
\* long: padded up to s when h < s, the header exactly when h >= s.
C20_PayloadIsHeaderThenPadding ==
  payload # <<>> =>
    LET hdr == Prefix(plTs, plSeq)
        h == Len(hdr)
    IN  /\ Len(payload) = Max(h, plSize)
        /\ \A i \in 1..Len(payload) :
             payload[i] = IF i <= h THEN hdr[i] ELSE "x"

\* C20 witness: a header of 15 bytes built for a target size of 12: the
\* payload is the header, not cut.
C20_Witness ==
  /\ plTs = 345 /\ plSeq = 123 /\ plSize = 12
  /\ payload = <<"t", "s", "=", "3", "4", "5", "|", "s", "e", "q", "=", "1", "2", "3", "|">>

\* C21: whatever side built a payload (for a timestamp >= 0, a sequence
\* number >= 1 and any target size) and whatever side parses it, the sequence
\* parser returns the sequence number the payload was built for and the
\* timestamp parser (Java) the timestamp it was built for.
C21_BuildThenParseRoundTrip ==
  parsed["by"] # "none" =>
    /\ parsed["seq"] = plSeq
    /\ parsed["by"] = "java" => parsed["ts"] = plTs

\* C21 witness: the Java client has parsed a padded payload built by the Go
\* backend for ts 345 and seq 123, and got both back.
C21_Witness ==
  /\ agent = "go" /\ plTs = 345 /\ plSeq = 123 /\ plSize = 16
  /\ Len(payload) = 16
  /\ parsed = [by |-> "java", seq |-> 123, ts |-> 345]

\* a field as the claims read it: present, closed by "|", one or more digits
WellFormed(f) ==
  /\ f["form"] = "closed"
  /\ f["text"] # <<>>
  /\ \A k \in 1..Len(f["text"]) : IsDigit(f["text"][k])

\* the number a well-formed field writes in decimal
DecimalValue(f) == CHOOSE n \in 0..99 : FormatInt(n) = f["text"]

\* C22: for every payload the prefix parser returns the decimal value of the
\* seq (or ts) field when the field is present and well-formed, and -1 when the
\* field is missing, has no closing "|", is empty or holds a non-digit.
C22_ParserReturnsValueOrUnknown ==
  rx["topic"] # "none" =>
    /\ rx["seq"] = (IF WellFormed(rx["sent"]["seq"]) THEN DecimalValue(rx["sent"]["seq"]) ELSE -1)
    /\ agent = "java" =>
         rx["ts"] = (IF WellFormed(rx["sent"]["ts"]) THEN DecimalValue(rx["sent"]["ts"]) ELSE -1)

\* C23: a message published at T and received at T+D with D >= 0 gets the
\* latency D; a message received before T, or whose ts field is missing or
\* malformed, gets the latency "unavailable" (-1), never another value.
C23_LatencyIsDelayOrUnavailable ==
  rx["topic"] # "none" =>
    IF WellFormed(rx["sent"]["ts"]) /\ rx["recvTs"] >= DecimalValue(rx["sent"]["ts"])
    THEN rx["hasLat"] /\ rx["lat"] = rx["recvTs"] - DecimalValue(rx["sent"]["ts"])
    ELSE rx["hasLat"] => rx["lat"] = -1

\* C24: every message delivered on a subscribed topic has incremented that
\* topic's received counter exactly once (and the Go backend's total once),
\* whether or not its prefix parsed.
C24_EveryDeliveryCountedOnce ==
  /\ \A t \in Topics : recvT[t] = delivered[t]
  /\ agent = "go" => received = Deliveries

\* C24 witness: the Java client has received one message on each of its topics,
\* the last one without a parsable prefix, and counted both.
C24_Witness ==
  /\ agent = "java"
  /\ delivered["offer"] = 1 /\ delivered["ride"] = 1
  /\ recvT["offer"] = 1 /\ recvT["ride"] = 1
  /\ rx["seq"] = -1 /\ rx["ts"] = -1

\* C25 (as claimed): the messages of the ticks that fired while the connection
\* was down (no more of them than the buffer holds) are transmitted after the
\* reconnect, in tick order: once the Go backend is connected again and its
\* publishers are idle, every tick of a topic has had its message handed over.
C25_DownTicksTransmittedAfterReconnect ==
  (agent = "go" /\ connects >= 2 /\ IsConnectionOpen /\ \A t \in Topics : pc[t] = "idle") =>
    \A t \in PubTopics("go") :
      /\ Len(handed[t]) = ticks[t]
      /\ \A i \in 1..Len(handed[t]) : handed[t][i] = i

\* a publish of the topic was not acknowledged: its token failed or timed out,
\* or a finished tick handed nothing over
Unacked(t) ==
  \/ tok[t]["failed"] > 0
  \/ tok[t]["timedout"] > 0
  \/ pc[t] = "idle" /\ Len(handed[t]) < ticks[t]

\* C27: while the connection stays connected and every publish is
\* acknowledged, a topic whose publisher has finished N ticks has a published
\* counter of N, and N ticks lead to an acknowledged counter of N.
C27_ConnectedTicksPublishedAndAcked ==
  /\ [](\A t \in Topics : (pc[t] = "idle" /\ ~Unacked(t)) => pubT[t] = ticks[t])
  /\ \A t \in Topics : \A n \in 1..MaxTicks :
       (ticks[t] = n) ~> (ackT[t] = n \/ Unacked(t))

\* C27 witness: the Go backend after 3 ticks of /driver/offer, all published
\* and all acknowledged.
C27_Witness ==
  /\ agent = "go" /\ losses = 0
  /\ ticks["offer"] = 3 /\ pc["offer"] = "idle"
  /\ pubT["offer"] = 3 /\ ackT["offer"] = 3
  /\ tok["offer"]["acked"] = 3

\* C28: loadConfig returns the built-in default for every omitted option and
\* the given value for every option given a non-zero value; an explicit QoS
\* of 0 and an explicit retry.enabled=false are kept, an explicit 0 for an
\* option held in a plain int field is replaced by the default.
C28_DefaultsAndExplicitValues ==
  cfg["by"] = "go" =>
    /\ cfg["KeepAliveSecs"] = (IF yaml["keepalive_secs"]["given"] /\ yaml["keepalive_secs"]["v"] # 0
                               THEN yaml["keepalive_secs"]["v"] ELSE 15)
    /\ cfg["MaxInflight"] = (IF yaml["max_inflight"]["given"] /\ yaml["max_inflight"]["v"] # 0
                             THEN yaml["max_inflight"]["v"] ELSE 64)
    /\ cfg["QoSRide"] = (IF yaml["qos_ride"]["given"] THEN yaml["qos_ride"]["v"] ELSE 1)
    /\ cfg["RetryEnabled"] = (IF yaml["retry_enabled"]["given"] THEN yaml["retry_enabled"]["v"] ELSE TRUE)

\* C28 witness: loadConfig has read a file that omits keepalive_secs and gives
\* qos.ride: 0, retry.enabled: false and max_inflight: 0.
C28_Witness ==
  /\ cfg["by"] = "go"
  /\ yaml["keepalive_secs"] = Omitted(0) /\ cfg["KeepAliveSecs"] = 15
  /\ yaml["qos_ride"] = Given(0) /\ cfg["QoSRide"] = 0
  /\ yaml["retry_enabled"] = Given(FALSE) /\ cfg["RetryEnabled"] = FALSE
  /\ yaml["max_inflight"] = Given(0) /\ cfg["MaxInflight"] = 64

\* C28 (as claimed): every option given explicitly keeps the given value.
C28_EveryExplicitValueKept ==
  cfg["by"] = "go" =>
    /\ cfg["KeepAliveSecs"] = (IF yaml["keepalive_secs"]["given"] THEN yaml["keepalive_secs"]["v"] ELSE 15)
    /\ cfg["MaxInflight"] = (IF yaml["max_inflight"]["given"] THEN yaml["max_inflight"]["v"] ELSE 64)
    /\ cfg["QoSRide"] = (IF yaml["qos_ride"]["given"] THEN yaml["qos_ride"]["v"] ELSE 1)
    /\ cfg["RetryEnabled"] = (IF yaml["retry_enabled"]["given"] THEN yaml["retry_enabled"]["v"] ELSE TRUE)

\* C29: the configuration Config.load returns has the option
\* mqtt.separate_pubsub_connections: false when the file omits it, the given
\* value when the file gives it.
C29_SeparatePubSubExposed ==
  cfg["by"] = "java" =>
    /\ "separatePubSubConnections" \in DOMAIN cfg
    /\ cfg["separatePubSubConnections"] =
         (IF yaml["separate_pubsub_connections"]["given"]
          THEN yaml["separate_pubsub_connections"]["v"] ELSE FALSE)

\* C30: in the Go backend the acknowledged counter never exceeds the published
\* counter, for each topic and for the totals, and no stats snapshot computes a
\* negative inflight value.
C30_AckedAtMostPublished ==
  agent = "go" =>
    /\ acked <= published
    /\ \A t \in PubTopics("go") : ackT[t] <= pubT[t]
    /\ snap["phase"] # "idle" => snap["inflight"] >= 0

\* C31: the Go backend calls client.Publish (and then counts the message as
\* published) only in a state where the connection is open, however a
\* connection loss interleaves with the tick.
C31_GoPublishesOnlyWhileOpen ==
  [][(agent = "go" /\ \E t \in Topics : handed'[t] # handed[t]) => IsConnectionOpen]_vars

\* C32: in the Go backend a tick that fires while the connection is not open
\* changes nothing: the sequence counters, the published, acknowledged and
\* received counters and the messages handed over and awaited stay as they
\* are, and the publisher is back at its select with nothing left to publish.
C32_TickWhileDownChangesNothing ==
  [][\A t \in Topics :
       (agent = "go" /\ ticks'[t] = ticks[t] + 1 /\ ~IsConnectionOpen) =>
         /\ pc'[t] = "idle"
         /\ seq' = seq /\ assigned' = assigned /\ handed' = handed /\ tok' = tok
         /\ published' = published /\ acked' = acked /\ pubT' = pubT /\ ackT' = ackT
         /\ received' = received /\ recvT' = recvT]_vars

\* C32 witness: two /driver/offer ticks have fired while the Go backend was
\* reconnecting: no sequence number, no message, no count.
C32_Witness ==
  /\ agent = "go" /\ conn = "reconnecting"
  /\ ticks["offer"] = 2 /\ pc["offer"] = "idle"
  /\ seq["offer"] = 0 /\ handed["offer"] = <<>>
  /\ published = 0 /\ pubT["offer"] = 0

\* C33: for each topic of the Go backend the messages are handed to the
\* transport in strictly increasing sequence-number order, one publish call
\* after the other: a publish call is made only by the topic's publisher on
\* its tick and hands over the number that follows the last one handed over.
C33_GoHandsInSequenceOrder ==
  /\ [](agent = "go" =>
          \A t \in Topics : \A i, j \in 1..Len(handed[t]) :
            i < j => handed[t][i] < handed[t][j])
  /\ [][\A t \in Topics :
          (agent = "go" /\ handed'[t] # handed[t]) =>
            /\ pc[t] = "checked" /\ pc'[t] = "handed"
            /\ handed'[t] = Append(handed[t], Len(handed[t]) + 1)]_vars

\* C33 witness: the Go backend has handed over 1 and 2 on /driver/offer and 1
\* on /driver/ride.
C33_Witness ==
  /\ agent = "go"
  /\ handed["offer"] = <<1, 2>>
  /\ handed["ride"] = <<1>>

\* C34: the liveness events of one agent strictly alternate: no two "dead"
\* and no two "alive" events follow each other. The first event is "dead"
\* when the monitor started with prev = true, and "alive" when it started
\* with prev = false (always, in the Java client).
C34_EventsAlternate ==
  /\ \A i \in 1..(Len(events) - 1) : events[i] # events[i + 1]
  /\ events # <<>> => events[1] = (IF seen[1] THEN "dead" ELSE "alive")
  /\ (agent = "java" /\ events # <<>>) => events[1] = "alive"

\* C34 witness: the Java client logged "alive" at its first poll, then a loss
\* and the recovery.
C34_Witness ==
  /\ agent = "java"
  /\ events = <<"alive", "dead", "alive">>

\* C34 (as claimed): the events alternate and the first one is "connection dead".
C34_EventsAlternateFromDead ==
  /\ \A i \in 1..(Len(events) - 1) : events[i] # events[i + 1]
  /\ events # <<>> => events[1] = "dead"

\* C35: the Go parseSeq and the Java parseSeq return the same value for every
\* payload.
C35_ParsersAgree ==
  rx["topic"] # "none" => GoParseSeq(rx["payload"]) = JavaParseSeq(rx["payload"])

\* C36: in the Java client, whenever no tick is in progress, the published
\* counter equals the last assigned sequence number and the sequence numbers
\* handed to the transport are 1, 2, ... without a gap.
C36_JavaSequenceWithoutGaps ==
  (agent = "java" /\ pc["location"] = "idle") =>
    /\ published = seq["location"]
    /\ \A i \in 1..Len(handed["location"]) : handed["location"][i] = i

\* C37: before the initial connect has succeeded no tick fires, no sequence
\* number is assigned and no message is handed to the transport or counted;
\* after a failed initial connect the Go backend has terminated and the Java
\* client is still in its connect loop.
C37_NothingBeforeInitialConnect ==
  connects = 0 =>
    /\ \A t \in Topics : ticks[t] = 0 /\ seq[t] = 0 /\ assigned[t] = <<>> /\ handed[t] = <<>>
    /\ published = 0 /\ acked = 0
    /\ exitCause = "connect" => (agent = "go" /\ proc = "exited")
    /\ attempts > 0 => (agent = "java" /\ proc = "connecting")

\* C37 witness: the Java client after two failed connect attempts, still
\* connecting, nothing sequenced or published.
C37_Witness ==
  /\ agent = "java" /\ proc = "connecting"
  /\ attempts = 2 /\ connects = 0
  /\ seq["location"] = 0 /\ published = 0

\* C39: for every positive retry.connect_timeout_ms the connect timeout the
\* Java client hands to the transport, in seconds, is positive and not larger
\* than the configured value.
C39_JavaConnectTimeoutPositive ==
  (opts["by"] = "java" /\ cfg["connectTimeoutMs"] > 0) =>
    /\ opts["connectionTimeout"] > 0
    /\ opts["connectionTimeout"] * 1000 <= cfg["connectTimeoutMs"]

====
